---- MODULE Spec2Model ----
(***************************************************************************)
(* A model of zhash.go: Config, a map[string]interface{} addressed by      *)
(* paths of keys.  Go maps are reference values, so the trees live in a    *)
(* heap of map objects and a stored mapping is an address into that heap.  *)
(***************************************************************************)
EXTENDS Integers, Sequences, FiniteSets, TLC

\* ------------------------------------------------------------ bounds

\* Longest path handed to Set and to the getters.
MaxPathLen == 2

\* Number of Set calls in one run.
MaxSets == 2

\* Keys used as path segments.
Keys == {"a", "b"}

Paths == UNION {[1..n -> Keys] : n \in 0..MaxPathLen}

\* ------------------------------------------------- dynamic values

REQUIRED == "[REQUIRED]"

\* An interface{} value: its dynamic type k and its payload v.  A float64 is
\* modelled by the integer it equals; a mapping by its heap address.
Nil == [k |-> "nil", v |-> 0]

Str(s) == [k |-> "string", v |-> s]

Bool(b) == [k |-> "bool", v |-> b]

GoInt(n) == [k |-> "int", v |-> n]

Int64(n) == [k |-> "int64", v |-> n]

Float64(n) == [k |-> "float64", v |-> n]

Slice(s) == [k |-> "[]interface{}", v |-> s]

StringSlice(s) == [k |-> "[]string", v |-> s]

MapRef(a) == [k |-> "map[string]interface{}", v |-> a]

ConfigRef(a) == [k |-> "Config", v |-> a]

\* The literal map[string]interface{}{}.
EmptyMap == << >>

\* m[key] of a Go map: the zero value, nil, for a key that is not there.
Index(m, key) == IF key \in DOMAIN m THEN m[key] ELSE Nil

\* m[key] = value of a Go map.
Store(m, key, value) == [x \in (DOMAIN m) \cup {key} |-> IF x = key THEN value ELSE m[x]]

\* strings.Join(path, ".")
RECURSIVE Join(_)
Join(path) ==
    IF path = << >> THEN ""
    ELSE IF Len(path) = 1 THEN path[1]
    ELSE path[1] \o "." \o Join(Tail(path))

\* ------------------------------------------------------------ state

VARIABLES
    heap,   \* the map objects: heap[a] is the map at address a
    nsets,  \* Set calls made so far
    pc,     \* "ready": the caller may call; "returned": a call has returned;
            \* "looping": the call never returns
    call,   \* the call last made
    ret     \* what it returned

vars == <<heap, nsets, pc, call, ret>>

\* The two Config instances of a run, each made by NewConfig().
Configs == {1, 2}

\* The instance the caller reads.  Set is called on both instances with the same
\* values, so every heap is reached with the two exchanged as well.
Readers == {1}

NoCall == [op |-> "none", cfg |-> 0, path |-> << >>, val |-> Nil]

NewConfig == EmptyMap

Init ==
    /\ heap = <<NewConfig, NewConfig>>
    /\ nsets = 0
    /\ pc = "ready"
    /\ call = NoCall
    /\ ret = Nil

\* Values a caller hands to Set: scalars, sequences, and any mapping it holds,
\* as a map[string]interface{} or as a Config.
Scalars ==
    {Nil, Str("s"), Str(REQUIRED), Bool(TRUE), GoInt(1), Int64(2), Float64(3)}

Slices ==
    {Slice(<<Str("s"), Str(REQUIRED)>>), Slice(<<Str("s"), Str("t"), Int64(3)>>)}

\* A Config is handed over as it is; a nested map, as GetMap returns it.
SetValues(h) ==
    Scalars \cup Slices \cup {ConfigRef(a) : a \in Configs}
        \cup {MapRef(a) : a \in (1..Len(h)) \ Configs}

\* -------------------------------------------------------------- Set

\* The type switch of Set on a middle element: descend into the node.
SetDescends(node) == node.k \in {"map[string]interface{}", "Config"}

\* The loop of Set from element i on, ptr the map reached: the heap and the
\* map the final key is assigned in.
RECURSIVE SetWalk(_, _, _, _)
SetWalk(h, ptr, path, i) ==
    IF i >= Len(path) THEN [heap |-> h, ptr |-> ptr]
    ELSE LET node == Index(h[ptr], path[i])
         IN  IF SetDescends(node) THEN SetWalk(h, node.v, path, i + 1)
             ELSE LET fresh == Len(h) + 1
                      h1 == Append([h EXCEPT ![ptr] = Store(@, path[i], MapRef(fresh))],
                                   EmptyMap)
                  IN  SetWalk(h1, fresh, path, i + 1)

\* c.Set(value, path...): the heap after the call.
SetHeap(h, c, value, path) ==
    LET w == SetWalk(h, c, path, 1)
        key == IF path = << >> THEN "" ELSE path[Len(path)]
    IN  [w.heap EXCEPT ![w.ptr] = Store(@, key, value)]

Set(c, value, path) ==
    /\ pc = "ready"
    /\ nsets < MaxSets
    /\ heap' = SetHeap(heap, c, value, path)
    /\ nsets' = nsets + 1
    /\ pc' = "returned"
    /\ call' = [op |-> "Set", cfg |-> c, path |-> path, val |-> value]
    /\ ret' = Nil

\* ---------------------------------------------------------- GetPath

\* The type switch of GetPath on a non-final element: descend into the node.
GetPathDescends(node) == node.k = "map[string]interface{}"

RECURSIVE GetPathWalk(_, _, _, _)
GetPathWalk(h, ptr, path, i) ==
    IF i > Len(path) THEN Nil
    ELSE IF i = Len(path) THEN Index(h[ptr], path[i])
    ELSE LET node == Index(h[ptr], path[i])
         IN  IF GetPathDescends(node) THEN GetPathWalk(h, node.v, path, i + 1)
             ELSE Nil

\* c.GetPath(path...)
GetPath(h, c, path) == GetPathWalk(h, c, path, 1)

\* ------------------------------------------------------------ errors

NoError == [e |-> "nil", path |-> << >>, msg |-> ""]

\* NewNotFoundError(path), with the text of its Error().
NewNotFoundError(path) ==
    [e |-> "NotFoundError", path |-> path,
     msg |-> "Value for " \o Join(path) \o " not found"]

\* errors.New(fmt.Sprintf("Error converting %s to <target>", strings.Join(path, ".")))
ConvertError(path, target) ==
    [e |-> "errorString", path |-> << >>,
     msg |-> "Error converting " \o Join(path) \o " to " \o target]

\* RequiredError{path}
RequiredError(path) == [Path |-> path]

\* The map[string]interface{}{} a failing GetMap returns: a new map, no part of any tree.
FreshMap == MapRef(0)

\* ---------------------------------------------------- typed getters

\* c.GetMap(path...)
GetMap(h, c, path) ==
    LET m == GetPath(h, c, path)
    IN  IF m = Nil THEN [val |-> FreshMap, err |-> NewNotFoundError(path)]
        ELSE IF m.k = "map[string]interface{}" THEN [val |-> m, err |-> NoError]
        ELSE [val |-> FreshMap, err |-> ConvertError(path, "map")]

\* GetString without its nil test: the type switch alone.
GetStringNoNilTest(h, c, path) ==
    LET m == GetPath(h, c, path)
    IN  IF m.k = "string" THEN [val |-> m, err |-> NoError]
        ELSE [val |-> Str(""), err |-> ConvertError(path, "string")]

\* c.GetString(path...)
GetString(h, c, path) ==
    LET m == GetPath(h, c, path)
    IN  IF m = Nil THEN [val |-> Str(""), err |-> NewNotFoundError(path)]
        ELSE IF m.k = "string" THEN [val |-> m, err |-> NoError]
        ELSE [val |-> Str(""), err |-> ConvertError(path, "string")]

\* c.GetSlice(path...)
GetSlice(h, c, path) ==
    LET m == GetPath(h, c, path)
    IN  IF m = Nil THEN [val |-> Slice(<< >>), err |-> NewNotFoundError(path)]
        ELSE IF m.k = "[]interface{}" THEN [val |-> m, err |-> NoError]
        ELSE [val |-> Slice(<< >>), err |-> ConvertError(path, "slice")]

\* The loop of GetStringSlice over val from element i on, sl the strings so far.
RECURSIVE StringSliceLoop(_, _, _, _)
StringSliceLoop(val, i, sl, path) ==
    IF i > Len(val) THEN [val |-> StringSlice(sl), err |-> NoError]
    ELSE IF val[i].k = "string" THEN StringSliceLoop(val, i + 1, Append(sl, val[i].v), path)
    ELSE [val |-> StringSlice(<< >>), err |-> ConvertError(path, "string slice")]

\* GetStringSlice returning, at an element that is no string, the strings so far.
RECURSIVE PartialLoop(_, _, _, _)
PartialLoop(val, i, sl, path) ==
    IF i > Len(val) THEN [val |-> StringSlice(sl), err |-> NoError]
    ELSE IF val[i].k = "string" THEN PartialLoop(val, i + 1, Append(sl, val[i].v), path)
    ELSE [val |-> StringSlice(sl), err |-> ConvertError(path, "string slice")]

GetStringSlicePartial(h, c, path) ==
    LET m == GetPath(h, c, path)
    IN  IF m = Nil THEN [val |-> StringSlice(<< >>), err |-> NewNotFoundError(path)]
        ELSE IF m.k = "[]interface{}" THEN PartialLoop(m.v, 1, << >>, path)
        ELSE [val |-> StringSlice(<< >>), err |-> ConvertError(path, "slice")]

\* c.GetStringSlice(path...)
GetStringSlice(h, c, path) ==
    LET m == GetPath(h, c, path)
    IN  IF m = Nil THEN [val |-> StringSlice(<< >>), err |-> NewNotFoundError(path)]
        ELSE IF m.k = "[]interface{}" THEN StringSliceLoop(m.v, 1, << >>, path)
        ELSE [val |-> StringSlice(<< >>), err |-> ConvertError(path, "slice")]

\* c.GetBool(path...)
GetBool(h, c, path) ==
    LET m == GetPath(h, c, path)
    IN  IF m = Nil THEN [val |-> Bool(FALSE), err |-> NewNotFoundError(path)]
        ELSE IF m.k = "bool" THEN [val |-> m, err |-> NoError]
        ELSE [val |-> Bool(FALSE), err |-> ConvertError(path, "bool")]

\* GetInt with a case float64 as well, as GetFloat has cases for the integers.
GetIntFromFloat(h, c, path) ==
    LET m == GetPath(h, c, path)
    IN  IF m = Nil THEN [val |-> Int64(0), err |-> NewNotFoundError(path)]
        ELSE IF m.k \in {"int", "int64", "float64"} THEN [val |-> Int64(m.v), err |-> NoError]
        ELSE [val |-> Int64(0), err |-> ConvertError(path, "int")]

\* c.GetInt(path...)
GetInt(h, c, path) ==
    LET m == GetPath(h, c, path)
    IN  IF m = Nil THEN [val |-> Int64(0), err |-> NewNotFoundError(path)]
        ELSE IF m.k = "int" THEN [val |-> Int64(m.v), err |-> NoError]
        ELSE IF m.k = "int64" THEN [val |-> m, err |-> NoError]
        ELSE [val |-> Int64(0), err |-> ConvertError(path, "int")]

\* c.GetFloat(path...)
GetFloat(h, c, path) ==
    LET m == GetPath(h, c, path)
    IN  IF m = Nil THEN [val |-> Float64(0), err |-> NewNotFoundError(path)]
        ELSE IF m.k = "float64" THEN [val |-> m, err |-> NoError]
        ELSE IF m.k = "int" THEN [val |-> Float64(m.v), err |-> NoError]
        ELSE IF m.k = "int64" THEN [val |-> Float64(m.v), err |-> NoError]
        ELSE [val |-> Float64(0), err |-> ConvertError(path, "float")]

\* A read returns: the heap is as it was.
Returned(op, c, path, result) ==
    /\ pc = "ready"
    /\ pc' = "returned"
    /\ call' = [op |-> op, cfg |-> c, path |-> path, val |-> Nil]
    /\ ret' = result
    /\ UNCHANGED <<heap, nsets>>

CallGetMap(c, path) == Returned("GetMap", c, path, GetMap(heap, c, path))

CallGetString(c, path) == Returned("GetString", c, path, GetString(heap, c, path))

CallGetSlice(c, path) == Returned("GetSlice", c, path, GetSlice(heap, c, path))

CallGetStringSlice(c, path) ==
    Returned("GetStringSlice", c, path, GetStringSlice(heap, c, path))

CallGetBool(c, path) == Returned("GetBool", c, path, GetBool(heap, c, path))

CallGetInt(c, path) == Returned("GetInt", c, path, GetInt(heap, c, path))

CallGetFloat(c, path) == Returned("GetFloat", c, path, GetFloat(heap, c, path))

CallGetPath(c, path) == Returned("GetPath", c, path, GetPath(heap, c, path))

\* --------------------------------------------------------- Validate

\* The orders in which a range over a map with these keys may visit them.
RangeOrders(keys) ==
    {o \in [1..Cardinality(keys) -> keys] : \A i, j \in DOMAIN o : o[i] = o[j] => i = j}

\* The work list loop of Validate: every errs it can end with, over the orders
\* the ranges may take.  The top of the stack is the last element.
RECURSIVE ValidateLoop(_, _, _, _)
ValidateLoop(h, nodes, paths, errs) ==
    IF Len(nodes) = 0 THEN {errs}
    ELSE LET node == nodes[Len(nodes)]
             path == paths[Len(paths)]
             nodes1 == SubSeq(nodes, 1, Len(nodes) - 1)
             paths1 == SubSeq(paths, 1, Len(paths) - 1)
         IN  IF node.k = "map[string]interface{}"
             THEN UNION {ValidateLoop(h,
                             nodes1 \o [i \in DOMAIN o |-> h[node.v][o[i]]],
                             paths1 \o [i \in DOMAIN o |-> path \o "." \o o[i]],
                             errs) : o \in RangeOrders(DOMAIN h[node.v])}
             ELSE IF node.k = "string" /\ node.v = REQUIRED
             THEN ValidateLoop(h, nodes1, paths1, Append(errs, RequiredError(path)))
             ELSE ValidateLoop(h, nodes1, paths1, errs)

\* c.Validate(): every errs it can return.
Validate(h, c) ==
    UNION {ValidateLoop(h, [i \in DOMAIN o |-> h[c][o[i]]], [i \in DOMAIN o |-> o[i]], << >>)
           : o \in RangeOrders(DOMAIN h[c])}

\* The maps held by the map at address a as map[string]interface{}.
MapChildren(h, a) ==
    {h[a][key].v : key \in {x \in DOMAIN h[a] : h[a][x].k = "map[string]interface{}"}}

\* The maps reached from those of S in one to n steps.
RECURSIVE Descendants(_, _, _)
Descendants(h, S, n) ==
    IF n = 0 THEN {}
    ELSE LET T == UNION {MapChildren(h, a) : a \in S}
         IN  T \cup Descendants(h, T, n - 1)

\* The work list of Validate never empties: a map it visits holds itself.
ValidateLoops(h, c) ==
    \E a \in Descendants(h, {c}, Len(h)) : a \in Descendants(h, {a}, Len(h))

CallValidate(c) ==
    /\ pc = "ready"
    /\ ~ValidateLoops(heap, c)
    /\ \E errs \in Validate(heap, c) : Returned("Validate", c, << >>, errs)

\* Validate on a tree that holds itself pushes without end and never returns.
CallValidateLoops(c) ==
    /\ pc = "ready"
    /\ ValidateLoops(heap, c)
    /\ pc' = "looping"
    /\ call' = [op |-> "Validate", cfg |-> c, path |-> << >>, val |-> Nil]
    /\ ret' = Nil
    /\ UNCHANGED <<heap, nsets>>

\* The caller takes the result and goes on.
Return ==
    /\ pc = "returned"
    /\ pc' = "ready"
    /\ call' = NoCall
    /\ ret' = Nil
    /\ UNCHANGED <<heap, nsets>>

Next ==
    \/ \E c \in Configs, path \in Paths : \E value \in SetValues(heap) : Set(c, value, path)
    \/ \E c \in Readers, path \in Paths : CallGetPath(c, path)
    \/ \E c \in Readers, path \in Paths : CallGetMap(c, path)
    \/ \E c \in Readers, path \in Paths : CallGetString(c, path)
    \/ \E c \in Readers, path \in Paths : CallGetSlice(c, path)
    \/ \E c \in Readers, path \in Paths : CallGetStringSlice(c, path)
    \/ \E c \in Readers, path \in Paths : CallGetBool(c, path)
    \/ \E c \in Readers, path \in Paths : CallGetInt(c, path)
    \/ \E c \in Readers, path \in Paths : CallGetFloat(c, path)
    \/ \E c \in Readers : CallValidate(c)
    \/ \E c \in Readers : CallValidateLoops(c)
    \/ Return

Spec == Init /\ [][Next]_vars

\* ------------------------------------------- the getters on their own

\* GetPath and the typed getters are functions of the tree and the path.  Their
\* inputs: the new Config and every tree one call of Set builds in it.
Trees ==
    {<<NewConfig, NewConfig>>} \cup
    {SetHeap(<<NewConfig, NewConfig>>, 1, value, path) :
        value \in SetValues(<<NewConfig, NewConfig>>), path \in Paths}

InitTree ==
    /\ heap \in Trees
    /\ nsets = 0
    /\ pc = "ready"
    /\ call = NoCall
    /\ ret = Nil

NextGetters ==
    \/ \E c \in Readers, path \in Paths : CallGetPath(c, path)
    \/ \E c \in Readers, path \in Paths : CallGetMap(c, path)
    \/ \E c \in Readers, path \in Paths : CallGetString(c, path)
    \/ \E c \in Readers, path \in Paths : CallGetSlice(c, path)
    \/ \E c \in Readers, path \in Paths : CallGetStringSlice(c, path)
    \/ \E c \in Readers, path \in Paths : CallGetBool(c, path)
    \/ \E c \in Readers, path \in Paths : CallGetInt(c, path)
    \/ \E c \in Readers, path \in Paths : CallGetFloat(c, path)
    \/ Return

SpecGetters == InitTree /\ [][NextGetters]_vars

\* ------------------------------------------- vocabulary of the claims

\* A Set call has just returned: heap is the tree before it, heap' after it.
SetStep == pc = "ready" /\ pc' = "returned" /\ call'.op = "Set"

\* A read has returned and its result is in ret.
ReturnedFrom(ops) == pc = "returned" /\ call.op \in ops

TypedGetters ==
    {"GetMap", "GetString", "GetSlice", "GetStringSlice", "GetBool", "GetInt", "GetFloat"}

IsPrefix(p, q) == Len(p) <= Len(q) /\ SubSeq(q, 1, Len(p)) = p

\* A mapping of the data model, whichever Go type it is stored under.
IsMapping(node) == node.k \in {"map[string]interface{}", "Config"}

Missing == [k |-> "missing", v |-> 0]

\* The node a non-empty path names in the tree of the map at address a, by key
\* lookup through mappings; Missing where a key is not there or a segment
\* before the last holds no mapping.
RECURSIVE NodeFrom(_, _, _)
NodeFrom(h, a, path) ==
    LET node == IF path[1] \in DOMAIN h[a] THEN h[a][path[1]] ELSE Missing
    IN  IF Len(path) = 1 THEN node
        ELSE IF IsMapping(node) THEN NodeFrom(h, node.v, Tail(path))
        ELSE Missing

\* No value lives at the path: a key on it is missing or a segment before the
\* last holds no mapping.
NoValue(h, c, path) == path = << >> \/ NodeFrom(h, c, path) = Missing

IsNotFound(err, path) == err.e = "NotFoundError" /\ err.path = path

IsConversionError(err) == err.e = "errorString"

\* ------------------------------------------------------------ claims

\* C1: write-then-read.  After Set(v, p) with p non-empty, GetPath(p) returns v,
\* whatever the tree held before.
C1_WriteThenRead ==
    (ReturnedFrom({"Set"}) /\ call.path # << >>)
        => GetPath(heap, call.cfg, call.path) = call.val

\* C2: non-destructive descent.  Set(v, p) leaves GetPath(q) as it was for every
\* path q that is no prefix of p and has no prefix p.
C2_NonDestructiveDescent ==
    [][SetStep =>
         \A q \in Paths :
            (~IsPrefix(call'.path, q) /\ ~IsPrefix(q, call'.path))
                => GetPath(heap', call'.cfg, q) = GetPath(heap, call'.cfg, q)]_vars

\* C3: absence is not an error.  On a path with no value GetPath returns nil;
\* every typed getter fails with NotFoundError carrying the path when GetPath
\* is nil, and with NotFoundError only then.
C3_AbsenceVsError ==
    ReturnedFrom(TypedGetters \cup {"GetPath"}) =>
        LET absent == GetPath(heap, call.cfg, call.path) = Nil
            novalue == NoValue(heap, call.cfg, call.path)
        IN  /\ call.op = "GetPath" => (novalue => ret = Nil)
            /\ call.op \in TypedGetters =>
                 /\ novalue => IsNotFound(ret.err, call.path)
                 /\ absent => IsNotFound(ret.err, call.path)
                 /\ ret.err.e = "NotFoundError" => absent
                 /\ IsConversionError(ret.err) => (~novalue /\ ~absent)

\* A typed getter has answered NotFoundError for a path whose first segment
\* holds a scalar.
C3_Witness ==
    /\ ReturnedFrom({"GetString"})
    /\ Len(call.path) = 2
    /\ NodeFrom(heap, call.cfg, <<call.path[1]>>).k = "int64"
    /\ IsNotFound(ret.err, call.path)

\* The paths, of keys and the empty key, as deep as MaxSets calls of Set build.
AllKeys == Keys \cup {""}

DeepPaths == UNION {[1..n -> AllKeys] : n \in 1..(MaxSets * MaxPathLen)}

\* The paths of the string leaves equal to REQUIRED, through mapping keys only.
RequiredLeaves(h, c) == {q \in DeepPaths : NodeFrom(h, c, q) = Str(REQUIRED)}

\* C4: Validate returns exactly one RequiredError for each REQUIRED string leaf
\* reached from the root through mapping keys, with its dot-joined path, and
\* nothing else.
C4_ValidatorCompleteness ==
    ReturnedFrom({"Validate"}) =>
        /\ \A q \in RequiredLeaves(heap, call.cfg) :
              Cardinality({i \in DOMAIN ret : ret[i] = RequiredError(Join(q))}) = 1
        /\ \A i \in DOMAIN ret :
              \E q \in RequiredLeaves(heap, call.cfg) : ret[i] = RequiredError(Join(q))

\* C5: the numeric coercion table.  For a value present at the path, GetInt
\* succeeds exactly on int and int64 and returns an int64; GetFloat succeeds
\* exactly on float64, int and int64 and returns a float64; every other kind
\* is a conversion error.
C5_NumericCoercion ==
    ReturnedFrom({"GetInt", "GetFloat"}) =>
        LET m == GetPath(heap, call.cfg, call.path)
            accepted == IF call.op = "GetInt" THEN {"int", "int64"}
                        ELSE {"float64", "int", "int64"}
            target == IF call.op = "GetInt" THEN "int64" ELSE "float64"
        IN  m # Nil =>
              IF m.k \in accepted
              THEN ret.err = NoError /\ ret.val = [k |-> target, v |-> m.v]
              ELSE IsConversionError(ret.err) /\ ret.val = [k |-> target, v |-> 0]

\* GetFloat has widened a stored int.
C5_Witness ==
    /\ ReturnedFrom({"GetFloat"})
    /\ GetPath(heap, call.cfg, call.path) = GoInt(1)
    /\ ret = [val |-> Float64(1), err |-> NoError]

\* C6: GetStringSlice is all or nothing.  On a stored sequence it returns the
\* elements in order when every one is a string, and otherwise a conversion
\* error with an empty result.
C6_StringSliceAllOrNothing ==
    ReturnedFrom({"GetStringSlice"}) =>
        LET m == GetPath(heap, call.cfg, call.path)
        IN  m.k = "[]interface{}" =>
              IF \A i \in DOMAIN m.v : m.v[i].k = "string"
              THEN /\ ret.err = NoError
                   /\ ret.val = StringSlice([i \in DOMAIN m.v |-> m.v[i].v])
              ELSE /\ IsConversionError(ret.err)
                   /\ ret.val = StringSlice(<< >>)

\* GetStringSlice has refused a sequence whose first elements are strings.
C6_Witness ==
    /\ ReturnedFrom({"GetStringSlice"})
    /\ GetPath(heap, call.cfg, call.path) = Slice(<<Str("s"), Str("t"), Int64(3)>>)
    /\ IsConversionError(ret.err)
    /\ ret.val = StringSlice(<< >>)

\* C7: exclusive ownership.  A Set on one Config changes no GetPath of another.
C7_ExclusiveOwnership ==
    [][SetStep =>
         \A d \in Configs \ {call'.cfg} : \A q \in Paths :
            GetPath(heap', d, q) = GetPath(heap, d, q)]_vars

\* C8: the empty path.  GetPath() returns nil and Set(v) changes nothing.
C8_EmptyPath ==
    [][/\ (SetStep /\ call'.path = << >>) => heap' = heap
       /\ (pc' = "returned" /\ call'.op = "GetPath" /\ call'.path = << >>) => ret' = Nil]_vars

\* The nodes Set meets at the segments before the last, in the tree before the call.
RECURSIVE SetMeets(_, _, _, _)
SetMeets(h, ptr, path, i) ==
    IF i >= Len(path) THEN << >>
    ELSE LET node == Index(h[ptr], path[i])
         IN  IF SetDescends(node) THEN <<node>> \o SetMeets(h, node.v, path, i + 1)
             ELSE <<node>>

\* C9: Set and GetPath agree on what a mapping is.  Set descends into a node
\* before the last segment exactly when GetPath does, so a value Set writes
\* below nodes it kept is what GetPath returns.
C9_SameIntermediates ==
    [][SetStep =>
         LET met == SetMeets(heap, call'.cfg, call'.path, 1)
         IN  /\ \A i \in DOMAIN met : SetDescends(met[i]) <=> GetPathDescends(met[i])
             /\ (call'.path # << >> /\ \A i \in DOMAIN met : SetDescends(met[i]))
                    => GetPath(heap', call'.cfg, call'.path) = call'.val]_vars

\* C10: destructive auto-vivification.  For Set(v, p) with two segments or more,
\* a proper prefix that held no mapping holds afterwards a new mapping whose
\* only key is the next segment; one that held a mapping keeps that mapping and
\* its other keys; and the last key holds v.
C10_AutoVivification ==
    [][(SetStep /\ Len(call'.path) >= 2) =>
         LET c == call'.cfg
             p == call'.path
         IN  /\ \A i \in 1..(Len(p) - 1) :
                  LET pre == NodeFrom(heap, c, SubSeq(p, 1, i))
                      post == NodeFrom(heap', c, SubSeq(p, 1, i))
                  IN  IF IsMapping(pre)
                      THEN /\ post = pre
                           /\ \A key \in (DOMAIN heap[pre.v]) \ {p[i + 1]} :
                                 /\ key \in DOMAIN heap'[pre.v]
                                 /\ heap'[pre.v][key] = heap[pre.v][key]
                      ELSE /\ post.k = "map[string]interface{}"
                           /\ post.v \notin DOMAIN heap
                           /\ DOMAIN heap'[post.v] = {p[i + 1]}
             /\ NodeFrom(heap', c, p) = call'.val]_vars

====
